---- MODULE Spec2Model ----
(***************************************************************************)
(* Model of the `contextual` crate's Context<T>: a block-segmented stack   *)
(* (src/src/lib.rs).  The Context owns a vector of raw block pointers, a   *)
(* fixed non-zero block capacity and a length counter.  The heap is        *)
(* modelled explicitly so that addresses, relocation, destruction and      *)
(* deallocation are observable.                                            *)
(***************************************************************************)
EXTENDS Integers, Sequences, FiniteSets, TLC

\* ------------------------------------------------------------------ bounds
MaxCap == 3          \* largest block capacity explored exhaustively
MaxLen == 5          \* largest length counter explored exhaustively
MaxHandles == 5      \* most handles alive at once in the handle layer
WordBits == 16       \* width of usize in the model

\* ------------------------------------------------- constants of the source
TestCapacity == 16   \* Context::new(16) in the tests
TestPushes == 100    \* for _ in 0..100 in push_lots
TestValue == 10      \* the value the tests push
Uninit == 0          \* contents of a MaybeUninit slot never written

\* A value of T whose destructor panics.
Bomb == 0 - TestValue

Values == {TestValue, Bomb}

drop_panics(v) == v = Bomb

Modulus == 2 ^ WordBits

None == <<>>
Some(x) == <<x>>

Ceil(n, c) == (n + c - 1) \div c

Min(a, b) == IF a < b THEN a ELSE b

VARIABLES
    phase,           \* lifecycle of the Context value
    block_capacity,  \* Context.block_capacity
    len,             \* Context.len
    blocks,          \* Context.blocks: sequence of block base addresses
    heap,            \* address -> [slots, drops, freed]
    drop_iter,       \* teardown: the zipped iterator `blocks` still to be swept
    unwinding,       \* teardown: a panic is propagating
    raised,          \* teardown: panics that reached the Context's destroyer
    issued,          \* ghost: address and value of every push not yet popped
    high,            \* ghost: largest value `len` has ever had
    popped,          \* ghost: some pop has happened
    lastMut,         \* ghost: the last mutating operations
    pre,             \* ghost: snapshot taken before the last mutating operation
    ret,             \* ghost: address returned by the last push
    grew,            \* ghost: the last push called reserve_block
    query,           \* result of the last read-only call since the last mutation
    handles          \* the Items and StackGuards alive, oldest first

vars == <<phase, block_capacity, len, blocks, heap, drop_iter, unwinding, raised,
          issued, high, popped, lastMut, pre, ret, grew, query, handles>>

\* The outcome of a call: its result, whether it came out of undefined
\* behaviour, and the message of the panic it raised ("" for none).
Outcome(op, res) == [op |-> op, res |-> res, ub |-> FALSE, panic |-> ""]

Panic(op, res, msg) == [op |-> op, res |-> res, ub |-> FALSE, panic |-> msg]

NoQuery == Outcome("none", None)

\* .expect("The block capacity must be non-zero")
CapacityMessage == "The block capacity must be non-zero"

\* .expect("Tried to get from an empty context")
EmptyContextMessage == "Tried to get from an empty context"

\* ---------------------------------------------------------------- Context
\* The test scenario (capacity 16, 100 pushes of 10) is explored next to the
\* small capacities; it pushes only the value the tests push.
Capacities == (0 .. MaxCap) \cup {TestCapacity}

LenBound(cap) == IF cap = TestCapacity THEN TestPushes ELSE MaxLen

PushValues(cap) == IF cap = TestCapacity THEN {TestValue} ELSE Values

\* Context::len: the length of the block vector.
ContextLen(bs) == Len(bs)

\* ContextExt::len for &Context<T>.
ContextExtLen(bs) == ContextLen(bs)

\* ContextExt::is_empty (default method).
is_empty(bs) == ContextExtLen(bs) = 0

\* Mutant: the block index is compared one too far and the slot is not tested.
needs_block_eager(l, cap, bs) == l \div cap + 1 >= ContextLen(bs)

\* Mutant: every block boundary allocates, whether or not the block exists.
needs_block_on_boundary(l, cap, bs) == l % cap = 0

\* Mutant: the block index is compared with > instead of >=.
needs_block_late(l, cap, bs) == (l % cap = 0) /\ (l \div cap > ContextLen(bs))

\* The allocation test of push.
needs_block(l, cap, bs) == (l % cap = 0) /\ (l \div cap >= ContextLen(bs))

\* A fresh block: `capacity` uninitialised slots at a new address.
NewBlock(cap) ==
    [slots |-> [i \in 1 .. cap |-> Uninit],
     drops |-> [i \in 1 .. cap |-> 0],
     freed |-> 0]

\* Mutant: growth reallocates the whole storage, as one growable array would:
\* every block moves to a fresh address and the old ones are freed.
reserve_block_moving(bs, hp, cap) ==
    LET n == Len(bs)
        base == Len(hp)
    IN [blocks |-> [i \in 1 .. n + 1 |-> base + i],
        heap   |-> [a \in 1 .. base + n + 1 |->
                       IF a <= base
                       THEN IF \E i \in 1 .. n : bs[i] = a
                            THEN [hp[a] EXCEPT !.freed = @ + 1]
                            ELSE hp[a]
                       ELSE IF a <= base + n THEN hp[bs[a - base]]
                       ELSE NewBlock(cap)]]

\* Context::reserve_block: allocate one block, append its pointer.
reserve_block(bs, hp, cap) ==
    [blocks |-> Append(bs, Len(hp) + 1),
     heap   |-> Append(hp, NewBlock(cap))]

\* Mutant: the slot offset is left out, so the block's first slot is returned.
top_first_slot(l, cap, bs) ==
    IF l = 0 THEN None
    ELSE Some(<<bs[(l - 1) \div cap + 1], 0>>)

\* Mutant: the slot is computed from the length, not from the index len - 1.
top_slot_of_len(l, cap, bs) ==
    IF l = 0 THEN None
    ELSE Some(<<bs[(l - 1) \div cap + 1], l % cap>>)

\* Context::top.
top(l, cap, bs) ==
    IF l = 0 THEN None
    ELSE LET i == l - 1
             block == i \div cap
             slot == i % cap
         IN Some(<<bs[block + 1], slot>>)

\* Mutant: the counter is stored back unchanged.
pop_keeps_len(l) == l % Modulus

\* Mutant: the subtraction saturates at 0 instead of wrapping.
pop_saturating(l) == IF l = 0 THEN 0 ELSE l - 1

\* Context::pop.
pop(l) == (l - 1) % Modulus

\* Reading through an address.
Deref(hp, addr) == hp[addr[1]].slots[addr[2] + 1]

DerefOpt(hp, opt) == IF opt = None THEN None ELSE Some(Deref(hp, opt[1]))

Snapshot == [len |-> len, blocks |-> blocks, top |-> top(len, block_capacity, blocks),
             val |-> DerefOpt(heap, top(len, block_capacity, blocks))]

NoSnapshot == [len |-> 0, blocks |-> <<>>, top |-> None, val |-> None]

Init ==
    /\ phase = "uninit"
    /\ block_capacity = 0
    /\ len = 0
    /\ blocks = <<>>
    /\ heap = <<>>
    /\ drop_iter = <<>>
    /\ unwinding = FALSE
    /\ raised = 0
    /\ issued = <<>>
    /\ high = 0
    /\ popped = FALSE
    /\ lastMut = "none"
    /\ pre = NoSnapshot
    /\ ret = None
    /\ grew = FALSE
    /\ query = NoQuery
    /\ handles = <<>>

\* Mutant: a zero capacity is silently replaced by 1.
nonzero_clamped(c) == Some(IF c = 0 THEN 1 ELSE c)

\* NonZeroUsize::new
nonzero(c) == IF c = 0 THEN None ELSE Some(c)

\* Context::new: NonZeroUsize::new(block_capacity).expect(...)
New(c) ==
    /\ phase = "uninit"
    /\ IF nonzero(c) = None
       THEN /\ phase' = "config_error"
            /\ query' = Panic("new", Some(c), CapacityMessage)
            /\ UNCHANGED <<block_capacity, lastMut>>
       ELSE /\ phase' = "live"
            /\ block_capacity' = nonzero(c)[1]
            /\ lastMut' = "new"
            /\ query' = Outcome("new", Some(c))
    /\ UNCHANGED <<len, blocks, heap, drop_iter, unwinding, raised, issued, high,
                   popped, pre, ret, grew>>

\* Context::push.
Push(value) ==
    /\ phase = "live"
    /\ len < LenBound(block_capacity)
    /\ LET block == len \div block_capacity
           slot == len % block_capacity
           reserve == needs_block(len, block_capacity, blocks)
           mem == IF reserve THEN reserve_block(blocks, heap, block_capacity)
                  ELSE [blocks |-> blocks, heap |-> heap]
       IN IF block + 1 \in DOMAIN mem.blocks /\ mem.blocks[block + 1] \in DOMAIN mem.heap
          THEN LET base == mem.blocks[block + 1] IN
               /\ len' = len + 1
               /\ blocks' = mem.blocks
               /\ heap' = [mem.heap EXCEPT ![base].slots[slot + 1] = value]
               /\ ret' = Some(<<base, slot>>)
               /\ issued' = Append(issued, [ptr |-> <<base, slot>>, val |-> value])
               /\ high' = IF len + 1 > high THEN len + 1 ELSE high
               /\ grew' = reserve
               /\ phase' = phase
          ELSE \* get_unchecked out of range: undefined behaviour
               /\ phase' = "ub"
               /\ UNCHANGED <<len, blocks, heap, ret, issued, high, grew>>
    /\ lastMut' = "push"
    /\ pre' = Snapshot
    /\ query' = NoQuery
    /\ UNCHANGED <<block_capacity, drop_iter, unwinding, raised, popped>>

\* Context::pop as written: no check of the counter.  (The model stops
\* exploring once the counter has wrapped.)
PopUnchecked ==
    /\ phase = "live"
    /\ len <= LenBound(block_capacity)
    /\ len' = pop(len)
    /\ issued' = SubSeq(issued, 1, Len(issued) - 1)
    /\ popped' = TRUE
    /\ lastMut' = IF lastMut = "push" THEN "push_pop" ELSE "pop"
    /\ pre' = IF lastMut = "push" THEN pre ELSE Snapshot
    /\ ret' = IF lastMut = "push" THEN ret ELSE None
    /\ grew' = IF lastMut = "push" THEN grew ELSE FALSE
    /\ query' = NoQuery
    /\ UNCHANGED <<phase, block_capacity, blocks, heap, drop_iter, unwinding, raised, high>>

\* Context::pop, called as its safety contract demands: never more pops than
\* pushes.
Pop ==
    /\ len > 0
    /\ PopUnchecked

QueryFrame == UNCHANGED <<phase, block_capacity, len, blocks, heap, drop_iter, unwinding,
                          raised, issued, high, popped, lastMut, pre, ret, grew>>

\* Whether the get_unchecked of top stays inside the block vector.
top_in_range(l, cap, bs) == l = 0 \/ (l - 1) \div cap + 1 \in DOMAIN bs

\* A call of Context::top.
TopCall ==
    /\ phase = "live"
    /\ top_in_range(len, block_capacity, blocks)
    /\ query' = Outcome("top", top(len, block_capacity, blocks))
    /\ QueryFrame

\* What top can hand back once get_unchecked has left the block vector: the
\* word read there is arbitrary, so the result is some wild address or, when
\* the computed pointer is null, the empty Option.
WildResults(l, cap) == {None, Some(<<0, (l - 1) % cap>>)}

\* A call of Context::top whose block index is out of range: undefined
\* behaviour.  It returns one of WildResults, or the read faults.
TopCallWild ==
    /\ phase = "live"
    /\ ~top_in_range(len, block_capacity, blocks)
    /\ \/ /\ \E r \in WildResults(len, block_capacity) :
                 query' = [op |-> "top", res |-> r, ub |-> TRUE, panic |-> ""]
          /\ phase' = phase
       \/ /\ query' = [op |-> "top", res |-> None, ub |-> TRUE, panic |-> ""]
          /\ phase' = "ub"
    /\ UNCHANGED <<block_capacity, len, blocks, heap, drop_iter, unwinding, raised,
                   issued, high, popped, lastMut, pre, ret, grew>>

\* A call of len().
LenCall ==
    /\ phase = "live"
    /\ query' = Outcome("len", ContextExtLen(blocks))
    /\ QueryFrame

\* A call of is_empty().
IsEmptyCall ==
    /\ phase = "live"
    /\ query' = Outcome("is_empty", is_empty(blocks))
    /\ QueryFrame

\* ---------------------------------------------------------------- teardown
\* Mutant: init_len is read, not taken, so every trailing block gets it.
block_sizes_no_take(l, cap, nblocks) ==
    LET init_blocks == l \div cap
        init_len == l % cap
        rest == IF nblocks > init_blocks THEN nblocks - init_blocks ELSE 0
    IN [i \in 1 .. (init_blocks + rest) |->
            IF i <= init_blocks THEN <<cap, cap>> ELSE <<cap, init_len>>]

\* Mutant: every allocated block is swept as if it were full.
block_sizes_all_full(l, cap, nblocks) == [i \in 1 .. nblocks |-> <<cap, cap>>]

\* Drop for Context: the (capacity, len) pair of every block, in block order.
\* The first `len / capacity` blocks are full; of the others the first takes
\* `len % capacity` (mem::take leaves 0 behind) and the rest take 0.
block_sizes(l, cap, nblocks) ==
    LET init_blocks == l \div cap
        init_len == l % cap
        rest == IF nblocks > init_blocks THEN nblocks - init_blocks ELSE 0
    IN [i \in 1 .. (init_blocks + rest) |->
            IF i <= init_blocks THEN <<cap, cap>>
            ELSE IF i = init_blocks + 1 THEN <<cap, init_len>>
            ELSE <<cap, 0>>]

\* blocks.iter().copied().zip(block_sizes)
zip(bs, sizes) == [i \in 1 .. Min(Len(bs), Len(sizes)) |-> <<bs[i], sizes[i]>>]

\* Mutant: no guard, so unwinding leaves the rest of the iterator untouched.
on_panic_forgotten(rest) == <<>>

\* The guard `on_panic`: when the sweep unwinds, its destructor sweeps what is
\* left of the iterator.
on_panic(rest) == rest

\* Dropping Vec::from_raw_parts(ptr, len, capacity): the first `n` elements are
\* destructed in order; a first panic lets the remaining elements be destructed
\* and the buffer be freed while unwinding; a panic raised while already
\* unwinding aborts the process on the spot.
drop_vec(blk, n, isUnwinding) ==
    LET idx == 1 .. Min(n, Len(blk.slots))
        bombs == {j \in idx : drop_panics(blk.slots[j])}
        budget == IF isUnwinding THEN 0 ELSE 1
        abort == Cardinality(bombs) > budget
        fatal == CHOOSE j \in bombs : Cardinality({k \in bombs : k < j}) = budget
        last == IF abort THEN fatal ELSE n
    IN [block |-> [slots |-> blk.slots,
                   drops |-> [j \in DOMAIN blk.drops |->
                                IF j \in idx /\ j <= last THEN blk.drops[j] + 1
                                ELSE blk.drops[j]],
                   freed |-> IF abort THEN blk.freed ELSE blk.freed + 1],
        panicked |-> bombs # {},
        aborted  |-> abort]

\* Drop for Context, up to the construction of the zipped iterator.
DropBegin ==
    /\ phase = "live"
    /\ phase' = "dropping"
    /\ drop_iter' = zip(blocks, block_sizes(len, block_capacity, Len(blocks)))
    /\ lastMut' = "drop"
    /\ pre' = NoSnapshot
    /\ ret' = None
    /\ grew' = FALSE
    /\ query' = NoQuery
    /\ UNCHANGED <<block_capacity, len, blocks, heap, unwinding, raised, issued, high,
                   popped>>

\* One turn of the for_each closure in DropContext::drop.
DropBlock ==
    /\ phase = "dropping"
    /\ drop_iter # <<>>
    /\ LET ptr == Head(drop_iter)[1]
           n == Head(drop_iter)[2][2]
           r == drop_vec(heap[ptr], n, unwinding)
       IN /\ heap' = [heap EXCEPT ![ptr] = r.block]
          /\ unwinding' = (unwinding \/ r.panicked)
          /\ phase' = IF r.aborted THEN "aborted" ELSE phase
          /\ drop_iter' = IF r.panicked /\ ~unwinding
                          THEN on_panic(Tail(drop_iter))
                          ELSE Tail(drop_iter)
    /\ UNCHANGED <<block_capacity, len, blocks, raised, issued, high, popped, lastMut,
                   pre, ret, grew, query>>

\* The iterator is exhausted: drop returns, or the panic reaches the destroyer.
DropEnd ==
    /\ phase = "dropping"
    /\ drop_iter = <<>>
    /\ phase' = IF unwinding THEN "panicked" ELSE "dropped"
    /\ raised' = IF unwinding THEN raised + 1 ELSE raised
    /\ UNCHANGED <<block_capacity, len, blocks, heap, drop_iter, unwinding, issued, high,
                   popped, lastMut, pre, ret, grew, query>>

\* The Context used directly, without handles.
Raw == UNCHANGED handles

Next ==
    \/ \E c \in Capacities : New(c) /\ Raw
    \/ \E v \in Values : v \in PushValues(block_capacity) /\ Push(v) /\ Raw
    \/ Pop /\ Raw
    \/ TopCall /\ Raw
    \/ LenCall /\ Raw
    \/ IsEmptyCall /\ Raw
    \/ DropBegin /\ Raw
    \/ DropBlock /\ Raw
    \/ DropEnd /\ Raw

Spec == Init /\ [][Next]_vars

\* The Context used directly and without regard for pop's contract.
NextUnchecked ==
    \/ \E c \in Capacities : New(c) /\ Raw
    \/ \E v \in Values : v \in PushValues(block_capacity) /\ Push(v) /\ Raw
    \/ PopUnchecked /\ Raw
    \/ TopCall /\ Raw
    \/ TopCallWild /\ Raw

SpecUnchecked == Init /\ [][NextUnchecked]_vars

\* ------------------------------------------------------------ handle layer
\* Item::from_ref (reached through push!): push the value, keep the address.
ItemNew(value) ==
    /\ Len(handles) < MaxHandles
    /\ Push(value)
    /\ handles' = Append(handles, [kind |-> "item",
                                   ptr  |-> IF ret' = None THEN <<0, 0>> ELSE ret'[1],
                                   val  |-> value])

\* StackGuard::from_ref: `context.top()?` wrapped into a guard.
from_ref(opt, hp) ==
    IF opt = None THEN None
    ELSE Some([kind |-> "guard", ptr |-> opt[1], val |-> Deref(hp, opt[1])])

\* try_get!: a guard on the current top, or nothing.
TryGet ==
    /\ phase = "live"
    /\ Len(handles) < MaxHandles
    /\ top_in_range(len, block_capacity, blocks)
    /\ LET g == from_ref(top(len, block_capacity, blocks), heap)
       IN /\ query' = Outcome("try_get", top(len, block_capacity, blocks))
          /\ handles' = IF g = None THEN handles ELSE Append(handles, g[1])
    /\ QueryFrame

\* Mutant: the strict accessor forgets its expect and hands back the Option.
get_outcome_lenient(opt) == Outcome("get", opt)

\* get!: try_get! followed by .expect("Tried to get from an empty context").
get_outcome(opt) ==
    IF opt = None THEN Panic("get", None, EmptyContextMessage)
    ELSE Outcome("get", opt)

\* get!: a guard on the current top, or a panic.
Get ==
    /\ phase = "live"
    /\ Len(handles) < MaxHandles
    /\ top_in_range(len, block_capacity, blocks)
    /\ LET g == from_ref(top(len, block_capacity, blocks), heap)
           out == get_outcome(top(len, block_capacity, blocks))
       IN /\ query' = out
          /\ phase' = IF out.panic # "" THEN "fatal" ELSE phase
          /\ handles' = IF g = None THEN handles ELSE Append(handles, g[1])
    /\ UNCHANGED <<block_capacity, len, blocks, heap, drop_iter, unwinding, raised,
                   issued, high, popped, lastMut, pre, ret, grew>>

\* Mutant: releasing any handle pops, a guard included.
drop_pops_always(kind) == TRUE

\* Mutant: releasing a handle never pops.
drop_pops_never(kind) == FALSE

\* Drop for Item pops the Context; StackGuard has no destructor.
drop_pops(kind) == kind = "item"

\* The scope of the newest handle ends: locals are dropped in reverse order of
\* their declaration.
Release ==
    /\ phase = "live"
    /\ handles # <<>>
    /\ handles' = SubSeq(handles, 1, Len(handles) - 1)
    /\ IF drop_pops(handles[Len(handles)].kind)
       THEN PopUnchecked
       ELSE /\ UNCHANGED query
            /\ QueryFrame

\* Deref for StackGuard / Item: read the value through the recorded address.
DerefCall(i) ==
    /\ phase = "live"
    /\ handles[i].ptr[1] \in DOMAIN heap
    /\ query' = Outcome("deref", Some(Deref(heap, handles[i].ptr)))
    /\ UNCHANGED handles
    /\ QueryFrame

\* The Context used only through the handles of push!, try_get! and get!.
NextHandles ==
    \/ \E c \in Capacities : New(c) /\ Raw
    \/ \E v \in Values : v \in PushValues(block_capacity) /\ ItemNew(v)
    \/ TryGet
    \/ Get
    \/ Release
    \/ TopCall /\ Raw
    \/ \E i \in DOMAIN handles : DerefCall(i)

SpecHandles == Init /\ [][NextHandles]_vars

\* ----------------------------------------------------------------- claims
Terminal == {"dropped", "panicked", "aborted"}

\* The value in the slot with logical index k (0-based).
SlotAt(k) == heap[blocks[k \div block_capacity + 1]].slots[(k % block_capacity) + 1]

\* Live elements whose destructor panics.
LiveBombs == Cardinality({k \in 0 .. len - 1 : drop_panics(SlotAt(k))})

\* Every live slot destructed once, no other slot destructed, every block freed once.
Swept ==
    /\ \A a \in DOMAIN heap : heap[a].freed = 1
    /\ \A i \in DOMAIN blocks : \A j \in 1 .. block_capacity :
          heap[blocks[i]].drops[j] =
              IF (i - 1) * block_capacity + (j - 1) < len THEN 1 ELSE 0

\* Nothing destructed or freed twice, nothing beyond the length destructed.
NoDouble ==
    /\ \A a \in DOMAIN heap : heap[a].freed <= 1
    /\ \A i \in DOMAIN blocks : \A j \in 1 .. block_capacity :
          heap[blocks[i]].drops[j] <=
              IF (i - 1) * block_capacity + (j - 1) < len THEN 1 ELSE 0

IsPrefix(s, t) == Len(s) <= Len(t) /\ \A i \in 1 .. Len(s) : s[i] = t[i]

\* C1: top() called right after a push returns a non-empty result, the very
\* address push returned, and the slot at that address holds the pushed value.
C1_TopAfterPush ==
    (phase = "live" /\ lastMut = "push" /\ query.op = "top") =>
        /\ query.res # None
        /\ query.res = ret
        /\ Deref(heap, query.res[1]) = issued[Len(issued)].val

\* C1 witness: top() was called after a push that opened a second block.
C1_Witness ==
    /\ phase = "live" /\ lastMut = "push" /\ query.op = "top"
    /\ grew /\ Len(blocks) >= 2
    /\ query.res = ret

\* C2: a push immediately followed by a pop leaves top() returning the address
\* and value it returned before the push (empty if the Context was empty).
C2_PopRestoresTop ==
    (phase = "live" /\ lastMut = "push_pop" /\ query.op = "top") =>
        /\ query.res = pre.top
        /\ DerefOpt(heap, query.res) = pre.val

\* C2 witness: the undone push had crossed a block boundary and allocated.
C2_Witness ==
    /\ phase = "live" /\ lastMut = "push_pop" /\ query.op = "top"
    /\ grew /\ pre.top # None
    /\ query.res = pre.top

\* C3: len() returns the number of live elements (pushes minus pops).
C3_LenIsLiveCount ==
    (phase = "live" /\ query.op = "len") => query.res = Len(issued)

\* C4: is_empty() is true exactly when no element is live.
C4_IsEmptyIffNoLive ==
    (phase = "live" /\ query.op = "is_empty") => (query.res <=> (Len(issued) = 0))

\* C5: every address push returned for a value not yet popped stays valid: its
\* block keeps its base address, is not freed, and the slot keeps its value;
\* no push or pop relocates or frees a block.
C5_StableAddresses ==
    (phase = "live") =>
        /\ \A k \in 1 .. Len(issued) :
              LET h == issued[k] IN
              /\ h.ptr[1] \in DOMAIN heap
              /\ heap[h.ptr[1]].freed = 0
              /\ blocks[(k - 1) \div block_capacity + 1] = h.ptr[1]
              /\ Deref(heap, h.ptr) = h.val
        /\ \A a \in DOMAIN heap : heap[a].freed = 0
        /\ (lastMut \in {"push", "push_pop", "pop"}) => IsPrefix(pre.blocks, blocks)

\* C5 witness: an address issued earlier has lived through an allocating push.
C5_Witness ==
    /\ phase = "live" /\ lastMut = "push" /\ grew
    /\ Len(issued) >= 2 /\ Len(blocks) >= 2
    /\ Deref(heap, issued[1].ptr) = issued[1].val

\* C6: N consecutive pushes onto a fresh Context allocate ceil(N / capacity)
\* blocks, and a push allocates only when the length before it is a multiple
\* of the capacity.
C6_BlocksForPushes ==
    (phase = "live") =>
        /\ ~popped => Len(blocks) = Ceil(len, block_capacity)
        /\ (lastMut = "push" /\ Len(blocks) > Len(pre.blocks)) =>
              pre.len % block_capacity = 0

\* C6 witness: capacity 16, 100 pushes, 7 blocks.
C6_Witness ==
    /\ phase = "live" /\ ~popped
    /\ block_capacity = TestCapacity /\ len = TestPushes
    /\ Len(blocks) = Ceil(TestPushes, TestCapacity)
    /\ Len(blocks) = 7

\* The step relation of C7, over a step that ends in a live Context.
C7_Step ==
    (phase' = "live") =>
        /\ Len(blocks') = Ceil(high', block_capacity')
        /\ (phase = "live" /\ len' < len) => blocks' = blocks
        /\ (phase = "live" /\ len' > len) =>
              /\ IsPrefix(blocks, blocks')
              /\ Len(blocks') <= Len(blocks) + 1
              /\ (len \div block_capacity < Len(blocks)) =>
                    /\ blocks' = blocks
                    /\ Len(heap') = Len(heap)
                    /\ heap'[blocks[len \div block_capacity + 1]].slots[(len % block_capacity) + 1]
                          = issued'[Len(issued')].val

\* C7: the number of blocks is ceil(H / capacity) for the largest length H ever
\* reached; pop leaves the block sequence alone; a push allocates at most one
\* block, and none when the block it writes to already exists.
C7_BlocksNeverShrink == [][C7_Step]_vars

\* C7 witness: a push onto a block boundary found its block already allocated.
C7_Witness ==
    /\ phase = "live" /\ lastMut = "push" /\ ~grew /\ popped
    /\ pre.len % block_capacity = 0 /\ pre.len > 0
    /\ Len(blocks) = Ceil(high, block_capacity)

\* C8: with no failing destructor, teardown destructs every slot below the
\* length once, no slot at or above it, and frees every block once.
C8_TeardownExactlyOnce ==
    /\ (phase \in Terminal \cup {"dropping"}) => NoDouble
    /\ (phase \in Terminal /\ LiveBombs = 0) =>
          /\ phase = "dropped"
          /\ raised = 0
          /\ Swept

\* C8 witness: capacity + 1 live elements and a block that pops had emptied.
C8_Witness ==
    /\ phase = "dropped"
    /\ len = block_capacity + 1
    /\ Len(blocks) > Ceil(len, block_capacity)
    /\ Swept

\* C9: with exactly one failing destructor, every other live element is still
\* destructed once, every block is freed, and the failure reaches the
\* destroyer once, after the sweep.
C9_OneFailure ==
    (phase \in Terminal \cup {"dropping"} /\ LiveBombs = 1) =>
        /\ NoDouble
        /\ raised <= 1
        /\ (raised = 1) => Swept
        /\ (phase \in Terminal) => (phase = "panicked" /\ raised = 1 /\ Swept)

\* C9 witness: the failing element sat in the first of several swept blocks,
\* with live elements before and after it.
C9_Witness ==
    /\ phase = "panicked" /\ LiveBombs = 1 /\ raised = 1
    /\ block_capacity >= 2 /\ len > block_capacity + 1
    /\ drop_panics(SlotAt(1))
    /\ Swept

\* C10: with two or more failing destructors the sweep still completes, all
\* blocks are freed, and one failure reaches the destroyer afterwards.
C10_ManyFailures ==
    (phase \in Terminal /\ LiveBombs >= 2) =>
        /\ phase = "panicked"
        /\ raised = 1
        /\ Swept

\* C12: Context::new(0) fails at once with the configuration error and leaves
\* no Context to operate on; any capacity >= 1 gives a Context with length 0
\* and no block.
C12_ZeroCapacityRejected ==
    /\ (query.op = "new") =>
          /\ (query.res = Some(0)) <=> (phase = "config_error")
          /\ (phase = "config_error") => query.panic = CapacityMessage
          /\ (phase = "live") =>
                /\ query.panic = ""
                /\ Some(block_capacity) = query.res
                /\ len = 0 /\ blocks = <<>> /\ heap = <<>>
    /\ (phase \notin {"uninit", "config_error"}) => block_capacity >= 1
    /\ (phase = "config_error") =>
          /\ query.op = "new" /\ lastMut = "none"
          /\ len = 0 /\ blocks = <<>> /\ heap = <<>>

\* C12 witness: a construction with capacity 0 has been refused.
C12_Witness ==
    /\ phase = "config_error"
    /\ query = Panic("new", Some(0), CapacityMessage)

\* C18: with pops never exceeding pushes, len <= blocks * capacity, and the
\* block indices used by push (after its allocation) and by top are in range,
\* so no unchecked indexing leaves the block vector.
C18_IndicesInRange ==
    /\ phase # "ub"
    /\ (phase = "live") =>
          /\ len <= Len(blocks) * block_capacity
          /\ top_in_range(len, block_capacity, blocks)
          /\ (len > 0) => (len - 1) \div block_capacity < Len(blocks)
          /\ (lastMut = "push") => pre.len \div block_capacity + 1 \in DOMAIN blocks

\* C18 witness: every allocated slot is live and top has been read.
C18_Witness ==
    /\ phase = "live" /\ lastMut = "push" /\ query.op = "top"
    /\ len = Len(blocks) * block_capacity /\ Len(blocks) >= 2
    /\ query.res = Some(<<blocks[Len(blocks)], block_capacity - 1>>)

\* C19: push and pop destruct nothing; teardown destructs only slots below the
\* length; so a popped value is never destructed and no value is destructed
\* twice.
C19_PoppedNeverDestructed ==
    /\ (phase = "live") =>
          \A a \in DOMAIN heap :
              /\ heap[a].freed = 0
              /\ \A j \in DOMAIN heap[a].drops : heap[a].drops[j] = 0
    /\ (phase \in Terminal \cup {"dropping"}) =>
          \A i \in DOMAIN blocks : \A j \in 1 .. block_capacity :
              /\ heap[blocks[i]].drops[j] <= 1
              /\ ((i - 1) * block_capacity + (j - 1) >= len) =>
                    heap[blocks[i]].drops[j] = 0

\* C19 witness: teardown is over, live values were destructed, and a popped
\* value still sits, never destructed, in its slot.
C19_Witness ==
    /\ phase = "dropped" /\ len > 0 /\ popped
    /\ heap[blocks[1]].drops[1] = 1
    /\ \E i \in DOMAIN blocks : \E j \in 1 .. block_capacity :
          /\ (i - 1) * block_capacity + (j - 1) >= len
          /\ heap[blocks[i]].slots[j] # Uninit
          /\ heap[blocks[i]].drops[j] = 0

\* A step of Context::pop.
IsPopStep ==
    /\ lastMut' \in {"pop", "push_pop"}
    /\ <<lastMut, len, pre>>' # <<lastMut, len, pre>>

\* A call of Context::top made after the counter has wrapped.
IsTopAfterUnderflow ==
    /\ len = Modulus - 1
    /\ query'.op = "top"
    /\ query' # query

\* What C17 says of pop itself: the counter goes down by one, wrapping at 0
\* without any error, and nothing else changes.
C17_PopStep ==
    IsPopStep =>
        /\ len' = IF len = 0 THEN Modulus - 1 ELSE len - 1
        /\ UNCHANGED <<phase, block_capacity, blocks, heap>>
        /\ query'.panic = ""
        /\ (len = 0) => len' > Len(blocks') * block_capacity'

\* C17 as stated: pop decrements by one and touches nothing else; at 0 it wraps
\* to 2^w - 1 without error, after which len <= blocks * capacity is broken and
\* top() no longer returns empty.
C17_AsStated ==
    [][ /\ C17_PopStep
        /\ IsTopAfterUnderflow => query'.res # None ]_vars

\* C17 amended: as stated for pop; after the wrap top() passes its emptiness
\* check and indexes the block vector out of range, which is undefined
\* behaviour, so nothing is promised about what it returns.
C17_PopWrapsUnchecked ==
    [][ /\ C17_PopStep
        /\ IsTopAfterUnderflow =>
              /\ ~top_in_range(len, block_capacity, blocks)
              /\ query'.ub ]_vars

\* C17 witness: the counter has wrapped and top has been called.
C17_Witness ==
    /\ len = Modulus - 1
    /\ lastMut = "pop"
    /\ query.op = "top" /\ query.ub
    /\ len > Len(blocks) * block_capacity

\* A step of try_get! or get!.
IsPeekStep ==
    /\ query'.op \in {"try_get", "get"}
    /\ Len(handles') >= Len(handles)
    /\ <<query, handles, phase>>' # <<query, handles, phase>>

\* The address of the slot with logical index k (0-based).
AddrOf(k) == <<blocks[k \div block_capacity + 1], k % block_capacity>>

\* What C11 says of one peek, for a given diagnostic of the strict accessor.
C11_Peek(diagnostic) ==
    IsPeekStep =>
        /\ UNCHANGED <<block_capacity, len, blocks, heap>>
        /\ (len = 0) =>
              /\ handles' = handles
              /\ query'.res = None
              /\ (query'.op = "try_get") => (phase' = "live" /\ query'.panic = "")
              /\ (query'.op = "get") => (phase' = "fatal" /\ query'.panic = diagnostic)
        /\ (len > 0) =>
              /\ phase' = "live" /\ query'.panic = ""
              /\ query'.res = Some(AddrOf(len - 1))
              /\ Len(handles') = Len(handles) + 1
              /\ handles'[Len(handles')].kind = "guard"
              /\ handles'[Len(handles')].ptr = AddrOf(len - 1)

NItems == Cardinality({i \in DOMAIN handles : handles[i].kind = "item"})

\* C13: with the Context used only through handles released in reverse order
\* of creation, the length counter equals the number of live Items, never
\* wraps, and is 0 once every Item is released.
C13_LenCountsItems ==
    (phase \in {"live", "fatal"}) =>
        /\ len = NItems
        /\ len <= MaxHandles
        /\ len = Len(issued)
        /\ (handles = <<>>) => len = 0

\* C13 witness: Items that reached a second block have all been released.
C13_Witness ==
    /\ phase = "live" /\ handles = <<>> /\ len = 0
    /\ popped /\ lastMut = "pop" /\ Len(blocks) >= 2

\* The logical index of the slot handle i points to: an Item's own slot, a
\* guard's the slot of the newest Item below it.
ItemsBelow(i) == Cardinality({j \in 1 .. i - 1 : handles[j].kind = "item"})

SlotIndex(i) == IF handles[i].kind = "item" THEN ItemsBelow(i) ELSE ItemsBelow(i) - 1

\* C14: every live handle points to a live slot (index < len) of an unfreed
\* block, and that slot holds the value the Item pushed, or for a guard the
\* value that was on top when it was acquired.
C14_HandlesDeref ==
    (phase \in {"live", "fatal"}) =>
        \A i \in DOMAIN handles :
            LET h == handles[i]
                k == SlotIndex(i)
            IN /\ 0 <= k /\ k < len
               /\ k \div block_capacity + 1 \in DOMAIN blocks
               /\ h.ptr = AddrOf(k)
               /\ heap[h.ptr[1]].freed = 0
               /\ Deref(heap, h.ptr) = h.val
               /\ h.val = issued[k + 1].val

\* C14 witness: a guard is still alive after an Item above it went into
\* another block, and a handle has been dereferenced.
C14_Witness ==
    /\ phase = "live" /\ query.op = "deref"
    /\ \E i \in DOMAIN handles : \E j \in DOMAIN handles :
          /\ i < j
          /\ handles[i].kind = "guard" /\ handles[j].kind = "item"
          /\ handles[i].ptr[1] # handles[j].ptr[1]
          /\ Deref(heap, handles[i].ptr) = handles[i].val

\* A step of top(), of a guard's acquisition or dereference, or of a guard's
\* release.
IsReadStep ==
    \/ /\ query'.op \in {"top", "try_get", "get", "deref"}
       /\ Len(handles') >= Len(handles)
       /\ <<query, handles, phase>>' # <<query, handles, phase>>
    \/ /\ Len(handles') < Len(handles)
       /\ handles[Len(handles)].kind = "guard"

\* C15: top() and a guard's acquisition, dereference and release leave the
\* length counter, the block sequence and every slot unchanged.
C15_ReadsArePure ==
    [][IsReadStep => UNCHANGED <<block_capacity, len, blocks, heap, issued>>]_vars

\* C15 witness: guards have been acquired between pushes and top is read.
C15_Witness ==
    /\ phase = "live" /\ query.op = "top" /\ len >= 2
    /\ \E i \in DOMAIN handles : handles[i].kind = "guard" /\ i < Len(handles)
    /\ handles[Len(handles)].kind = "guard"

====
